---- MODULE Spec2Model ----
(***************************************************************************)
(* Appointment-slot monitor of doctor-playwright.                          *)
(*                                                                         *)
(* Two drivers decide, cycle after cycle, whether a strictly earlier slot  *)
(* of the target provider has appeared and keep a state file:              *)
(*   - tools/update_state_and_notify.py main(): the CI script, run after a *)
(*     one-shot `checker --output-json`; it reads the newest slots_*.json  *)
(*     and the submit_failure_*.html artifacts of the artifacts directory; *)
(*   - src/checker.py __main__ --monitor: the CLI loop, which fetches live *)
(*     and keeps the state mapping in memory.                              *)
(*                                                                         *)
(* Texts are modelled by what the code reads from them: a slot time text   *)
(* is none / empty / a "DD/06/2025 HH:00" text (record with the day and    *)
(* hour numerals), names are sequences of characters.  Instants are hours  *)
(* since 01/06/2025 00:00.  The "raw" key of a state entry (a copy of the  *)
(* slot record) is read by no decision and is left out.                    *)
(*                                                                         *)
(* Three specifications:                                                   *)
(*   Spec      the cycles of the two drivers, one driver at a time;        *)
(*   SpecAlt   a monitor loop and CI jobs taking turns on one state file;  *)
(*   SpecUnits single calls (find_next_slot, main and a pass of the loop   *)
(*             with failing I/O, the driver path, the command line) on     *)
(*             inputs drawn from bounded sets.                             *)
(***************************************************************************)
EXTENDS Integers, Sequences, FiniteSets, TLC

\* ---------------------------------------------------------------- bounds
MaxDay == 3          \* slot texts name the days 00..MaxDay of the month
MaxNow == 48         \* the clock stops advancing here (hours, UTC)
TickHours == 24      \* hours between two observations of the clock
TzOffsetHours == 1   \* local time = UTC + TzOffsetHours
MaxFailures == 4     \* consecutive_failures is not counted beyond this

\* ------------------------------------------------------ program constants
FAILURE_THRESHOLD == 3
PAUSE_DURATION_HOURS == 24
MAX_DAYS == 30
HoursPerDay == 24
DaysInMonth == 30

\* ------------------------------------------------------------------ texts
NoneText == [k |-> "none", d |-> 0, h |-> 0]
EmptyText == [k |-> "empty", d |-> 0, h |-> 0]
DateText(d, h) == [k |-> "date", d |-> d, h |-> h]

\* Python truthiness of an optional string: None and "" are falsy.
Truthy(s) == s.k = "date"

\* a `x or y` chain over optional strings: the first truthy operand, else the last
OrElse(x, y) == IF Truthy(x) THEN x ELSE y

NoneDt == [some |-> FALSE, t |-> 0]
SomeDt(t) == [some |-> TRUE, t |-> t]

\* checker._parse_slot_datetime: strptime "%d/%m/%Y %H:%M", None on any error
\* (a day 00, a day past the month's end or an hour 24 is a ValueError).
ParseSlotDatetime(s) ==
    IF s.k = "date" /\ s.d >= 1 /\ s.d <= DaysInMonth /\ s.h >= 0 /\ s.h < HoursPerDay
    THEN SomeDt((s.d - 1) * HoursPerDay + s.h)
    ELSE NoneDt

\* update_state_and_notify.parse_dt: parse only a truthy string
parse_dt(s) == IF Truthy(s) THEN ParseSlotDatetime(s) ELSE NoneDt

\* str.lower() on the characters the model uses
Lower(c) ==
    CASE c = "A" -> "a"
      [] c = "L" -> "l"
      [] c = "S" -> "s"
      [] c = "O" -> "o"
      [] c = "D" -> "d"
      [] c = "R" -> "r"
      [] OTHER -> c

LowerStr(s) == [i \in DOMAIN s |-> Lower(s[i])]

\* Python `sub in s` on strings
Contains(sub, s) ==
    \E i \in 0..(Len(s) - Len(sub)) : SubSeq(s, i + 1, i + Len(sub)) = sub

\* ------------------------------------------------------------------ slots
Target == <<"a", "l">>
Other == <<"S", "o">>
Providers == {Target, Other}

\* a slot record of the extractor: cell 0 and cell 3, plus the hidden form
\* inputs HORA / PROXIMA when the row's form carries them
Slot(doc, HORA, hora, PROXIMA) ==
    [doctor |-> doc, HORA |-> HORA, hora |-> hora, PROXIMA |-> PROXIMA]

AL == <<"D", "r", " ", "A", "L">>
SO == <<"D", "r", " ", "S", "o">>
DoctorTexts == {AL, SO}

\* a plain row: cell 0 and cell 3 only
Row(doc, hora) == Slot(doc, NoneText, hora, NoneText)

\* the slot lists a fetch can produce in this model: a row of the target on
\* day 01, on day MaxDay, a two-row page with the later slot first, a row of
\* another provider, and a row whose form carries PROXIMA only
SlotLists ==
    {<<Row(AL, DateText(1, 9))>>,
     <<Row(AL, DateText(MaxDay, 9))>>,
     <<Row(AL, DateText(MaxDay, 9)), Row(AL, DateText(2, 9))>>,
     <<Row(SO, DateText(1, 9))>>,
     <<Slot(AL, NoneText, EmptyText, DateText(2, 9))>>}

NoSlot == [some |-> FALSE, slot |-> Slot(<<>>, NoneText, NoneText, NoneText)]
SomeSlot(s) == [some |-> TRUE, slot |-> s]

\* s.get("HORA") or s.get("hora") or s.get("PROXIMA")
SlotHora(s) == OrElse(OrElse(s.HORA, s.hora), s.PROXIMA)

\* next_slot.get("HORA") or next_slot.get("hora"): what the CLI loop stores
SlotHoraStored(s) == OrElse(s.HORA, s.hora)

\* a window closed at its lower end: a slot at the very time of the call passes
IsCandidateFromNow(s, target_doctor, max_days, localNow) ==
    /\ Contains(LowerStr(target_doctor), LowerStr(s.doctor))
    /\ LET dt == parse_dt(SlotHora(s))
       IN  dt.some /\ localNow <= dt.t /\ dt.t <= localNow + max_days * HoursPerDay

\* find_next_slot lines 402-412: the tests one slot passes to be appended to
\* the candidates; the window is compared in local naive time
IsCandidate(s, target_doctor, max_days, localNow) ==
    /\ Contains(LowerStr(target_doctor), LowerStr(s.doctor))
    /\ LET dt == parse_dt(SlotHora(s))
       IN  dt.some /\ localNow < dt.t /\ dt.t <= localNow + max_days * HoursPerDay

\* find_next_slot lines 401-412: the list `candidates` of (dt, s), in input order
RECURSIVE Candidates(_, _, _, _)
Candidates(slots, target_doctor, max_days, localNow) ==
    IF slots = <<>> THEN <<>>
    ELSE LET s == Head(slots)
             rest == Candidates(Tail(slots), target_doctor, max_days, localNow)
         IN  IF IsCandidate(s, target_doctor, max_days, localNow)
             THEN <<[dt |-> parse_dt(SlotHora(s)).t, slot |-> s]>> \o rest
             ELSE rest

\* x, which came before every element of `sorted` in the input, put in its
\* place: before the first element whose dt is not smaller
RECURSIVE InsertByDt(_, _)
InsertByDt(x, sorted) ==
    IF sorted = <<>> THEN <<x>>
    ELSE IF x.dt <= Head(sorted).dt THEN <<x>> \o sorted
    ELSE <<Head(sorted)>> \o InsertByDt(x, Tail(sorted))

\* find_next_slot line 413: candidates.sort(key=lambda x: x[0]), a stable sort
RECURSIVE SortByDt(_)
SortByDt(candidates) ==
    IF candidates = <<>> THEN <<>>
    ELSE InsertByDt(Head(candidates), SortByDt(Tail(candidates)))

\* checker.find_next_slot: candidates[0][1] after the sort, None when there
\* is no candidate
find_next_slot(slots, target_doctor, max_days, localNow) ==
    LET candidates == SortByDt(Candidates(slots, target_doctor, max_days, localNow))
    IN  IF candidates = <<>> THEN NoSlot ELSE SomeSlot(candidates[1].slot)

\* ------------------------------------------------------------ state file
NonePu == [k |-> "none", t |-> 0]
NaivePu(t) == [k |-> "naive", t |-> t]
AwarePu(t) == [k |-> "aware", t |-> t]

Entry(hora, failures, paused, pu) ==
    [present |-> TRUE, hora |-> hora, failures |-> failures, paused |-> paused, pu |-> pu]

\* no entry of the provider in the file: state.get(target, {}) and the
\* .get defaults read it as these values
NoEntry ==
    [present |-> FALSE, hora |-> NoneText, failures |-> 0, paused |-> FALSE, pu |-> NonePu]

\* ------------------------------------------------- notifications, events
\* What a cycle does to the outside, in order: "write" is one save_state of
\* the state file, the others are one send_notification each.
SendResumed == "send_resumed"
SendSlotFreed == "send_slot_freed"
SendPaused == "send_paused"
SendNextSlot == "send_next_slot"
SendAvailable == "send_available"
Write == "write"

Sends(events) == SelectSeq(events, LAMBDA e : e # Write)
Count(events, what) == Len(SelectSeq(events, LAMBDA e : e = what))

\* ------------------------------------------------------------ artifacts
NoSlotsFile == [k |-> "none", slots |-> <<>>]
SlotsFile(slots) == [k |-> "ok", slots |-> slots]
CorruptSlotsFile == [k |-> "corrupt", slots |-> <<>>]

\* --------------------------------- tools/update_state_and_notify.py main
\* lines 117-123: the failure counter, updated before the pause check
UpdateFailures(failures, captcha_detected) ==
    IF captcha_detected THEN failures + 1 ELSE 0

\* the pause check with its expiry comparison turned around (`now <= pu`)
PauseCheckFlipped(paused, paused_until, utcNow) ==
    IF ~paused THEN "active"
    ELSE IF paused_until.k = "none" THEN "paused_no_until"
    ELSE IF paused_until.k = "aware" THEN "paused_error"
    ELSE IF utcNow <= paused_until.t THEN "resume"
    ELSE "paused_future"

\* lines 126-161: what the pause check does with a paused entry.
\*   datetime.fromisoformat(paused_until) is offset-aware for a text written
\*   with an offset; `utcnow() >= pu` then raises TypeError, which the
\*   `except Exception` takes for a parse failure: the monitor stays paused.
PauseCheck(paused, paused_until, utcNow) ==
    IF ~paused THEN "active"
    ELSE IF paused_until.k = "none" THEN "paused_no_until"
    ELSE IF paused_until.k = "aware" THEN "paused_error"
    ELSE IF utcNow >= paused_until.t THEN "resume"
    ELSE "paused_future"

\* line 163: `new_dt and (not prev_dt or new_dt < prev_dt)`
EarlierSlot(new_dt, prev_dt) ==
    new_dt.some /\ (~prev_dt.some \/ new_dt.t < prev_dt.t)

\* lines 146-148, 152-154, 158-160: `saved.update(...)` of a cycle that ends
\* in the pause check; it writes the counter updated at lines 117-123
PausedEntry(prev_hora, failures, paused, paused_until) ==
    Entry(prev_hora, failures, paused, paused_until)

\* a final update that writes paused = False whatever the cycle decided
FinalEntryUnpaused(prev_hora, failures, paused, paused_until) ==
    Entry(prev_hora, failures, FALSE, paused_until)

\* lines 200-202: the `saved.update(...)` that ends every cycle that passed
\* the pause check; it runs after either branch of line 163 and writes
\* prev_hora and the counter of lines 117-123 (or the 0 of a resume)
FinalEntry(prev_hora, failures, paused, paused_until) ==
    Entry(prev_hora, failures, paused, paused_until)

\* lines 186-198: the threshold check, in the else branch of line 163 only
ThresholdReached(failures) == failures >= FAILURE_THRESHOLD

\* lines 170 and 181: `state[target] = {"hora": new_hora, "raw": next_slot,
\* "consecutive_failures": 0, "paused": False}`, saved at lines 171 and 182
UpdatedEntry(new_hora) == Entry(new_hora, 0, FALSE, NonePu)

\* lines 85-204 for one target: the entry read, this cycle's nearest slot and
\* failure signal, the UTC clock -> the branch taken, the entries saved to
\* the file in order (the last one stays) and the events in order
Decide(saved, next_slot, captcha_detected, utcNow) ==
    LET prev_hora == saved.hora
        new_hora == IF next_slot.some THEN SlotHora(next_slot.slot) ELSE NoneText
        prev_dt == parse_dt(prev_hora)
        new_dt == parse_dt(new_hora)
        failures1 == UpdateFailures(saved.failures, captcha_detected)
        gate == PauseCheck(saved.paused, saved.pu, utcNow)
    IN  IF gate \in {"paused_no_until", "paused_error", "paused_future"}
        THEN [branch |-> gate,
              written |-> <<PausedEntry(prev_hora, failures1, saved.paused, saved.pu)>>,
              events |-> <<Write>>]
        ELSE
        LET resumed == (gate = "resume")
            failures2 == IF resumed THEN 0 ELSE failures1
            paused_until2 == IF resumed THEN NonePu ELSE saved.pu
            ev0 == IF resumed THEN <<SendResumed>> ELSE <<>>
        IN  IF EarlierSlot(new_dt, prev_dt)
            THEN IF ~Truthy(prev_hora)
                 THEN [branch |-> "initialize",
                       written |-> <<UpdatedEntry(new_hora),
                                     FinalEntry(prev_hora, failures2, FALSE, paused_until2)>>,
                       events |-> ev0 \o <<Write, Write>>]
                 ELSE [branch |-> "notify",
                       written |-> <<UpdatedEntry(new_hora),
                                     FinalEntry(prev_hora, failures2, FALSE, paused_until2)>>,
                       events |-> ev0 \o <<SendSlotFreed, Write, Write>>]
            ELSE IF ThresholdReached(failures2)
                 THEN [branch |-> "pause",
                       written |-> <<FinalEntry(prev_hora, failures2, TRUE,
                                                AwarePu(utcNow + PAUSE_DURATION_HOURS))>>,
                       events |-> ev0 \o <<SendPaused, Write>>]
                 ELSE [branch |-> "no_change",
                       written |-> <<FinalEntry(prev_hora, failures2, FALSE, paused_until2)>>,
                       events |-> ev0 \o <<Write>>]

\* `state[target] = saved; save_state(state_file, state)`: the whole mapping
\* is written back, with the target's entry replaced
SaveTarget(state, target, entry) == [state EXCEPT ![target] = entry]

\* lines 57-83: the returns that come before the state file is read
EarlyReturn(slotsFile) ==
    IF slotsFile.k = "none" THEN "no_slots_file"
    ELSE IF slotsFile.k = "corrupt" THEN "unreadable_slots_file"
    ELSE "go"

\* ------------------------------------------------------------ driver path
\* outcome of driver.find_elements(selector): a list of n elements, or an
\* exception
Elements(n) == [k |-> "elements", n |-> n]
FindElementsRaised == [k |-> "raised", n |-> 0]

\* the result strings: "Available hours found: N slots." keeps its count
FoundMessage(n) == [text |-> "Available hours found", n |-> n]
NoHoursMessage == [text |-> "No available hours.", n |-> 0]

\* a driver path that lets the exception of find_elements out
check_with_driver_unguarded(found) ==
    IF found.k = "raised" THEN [raised |-> TRUE, message |-> NoHoursMessage, sends |-> 0]
    ELSE IF found.n > 0 THEN [raised |-> FALSE, message |-> FoundMessage(found.n), sends |-> 1]
    ELSE [raised |-> FALSE, message |-> NoHoursMessage, sends |-> 0]

\* checker._check_with_driver: `elements` stays [] when find_elements
\* raises; a non-empty list gives the message with its length and one call
\* of send_notification
check_with_driver(found) ==
    LET elements == IF found.k = "raised" THEN 0 ELSE found.n
    IN  IF elements > 0
        THEN [raised |-> FALSE, message |-> FoundMessage(elements), sends |-> 1]
        ELSE [raised |-> FALSE, message |-> NoHoursMessage, sends |-> 0]

\* ------------------------------------------------------- command line
\* options the parser knows at its first parse_args() (line 427), and the
\* ones added after it (lines 434-436)
OptionsAt427 ==
    {"--headless", "--doctor", "--prevision", "--selector", "--output-json",
     "--target-doctor", "--max-days"}
OptionsAdded434 == {"--monitor", "--interval-seconds", "--state-file"}

\* argparse parse_args on the options present in argv: an option the parser
\* does not know is an error, exit status 2
parse_args(known, argv) == [ok |-> argv \subseteq known]

\* checker.py __main__, lines 417-518: what an invocation with the options
\* argv, and TARGET_DOCTOR set or not in the environment, comes to
Main(argv, envTarget) ==
    IF ~parse_args(OptionsAt427, argv).ok
    THEN [mode |-> "usage_error", exit |-> 2]
    ELSE IF ~parse_args(OptionsAt427 \cup OptionsAdded434, argv).ok
    THEN [mode |-> "usage_error", exit |-> 2]
    ELSE IF "--monitor" \in argv
    THEN (IF "--target-doctor" \in argv \/ envTarget
          THEN [mode |-> "monitor_loop", exit |-> 0]
          ELSE [mode |-> "monitor_no_target", exit |-> 2])
    ELSE [mode |-> "one_shot", exit |-> 0]

\* -------------------------------------------------------------- extractor
\* A row handle as the extractor reads it (checker.py lines 296-329):
\*   tdq     outcome of el.query_selector_all("td"): "ok" or "throws"
\*   ncells  number of td cells
\*   c0, c3  inner_text() of cell 0 and of cell 3: a name with or without
\*           blanks around it, a time text; "throws" instead when the call raises
\*   form    "none", "hidden" (hidden inputs HORA, PROXIMA read), "throws"
\*           (reading the hidden inputs raises), "query_throws"
\*           (el.query_selector("form") raises)
\*   text    inner_text() of the row itself, or "throws"
RowHandle(tdq, ncells, c0, c3, form, HORA, text) ==
    [tdq |-> tdq, ncells |-> ncells, c0 |-> c0, c3 |-> c3, form |-> form,
     HORA |-> HORA, text |-> text]

\* a text with or without blanks around it: str.strip() gives back `inner`
CellText(inner, padded) == [throws |-> FALSE, inner |-> inner, padded |-> padded]
\* inner_text() raises
Throws == [throws |-> TRUE, inner |-> <<>>, padded |-> FALSE]
StripCell(c) == c.inner

\* a record of the extractor: a slot record (a generic one has none of the
\* slot keys) and, for a generic record, the row's text
StructuredRecord(doc, hora, HORA, PROXIMA) ==
    [generic |-> FALSE, slot |-> Slot(doc, HORA, hora, PROXIMA), text |-> <<>>]
GenericRecord(text) ==
    [generic |-> TRUE, slot |-> Slot(<<>>, NoneText, NoneText, NoneText), text |-> text]

\* one pass of the loop body with no try around it: an accessor that raises
\* ends the pass with the exception
ExtractRowUnguarded(h) ==
    IF h.tdq = "throws" THEN [raised |-> TRUE, recs |-> <<>>]
    ELSE IF h.ncells >= 4
    THEN IF h.c0.throws \/ h.c3.throws \/ h.form = "query_throws"
         THEN [raised |-> TRUE, recs |-> <<>>]
         ELSE [raised |-> FALSE,
               recs |-> <<StructuredRecord(StripCell(h.c0), StripCell(h.c3),
                              IF h.form = "hidden" THEN h.HORA ELSE NoneText, NoneText)>>]
    ELSE [raised |-> FALSE,
          recs |-> <<GenericRecord(IF h.text.throws THEN <<>> ELSE StripCell(h.text))>>]

\* lines 296-329, one pass of `for el in elements`: the whole body is in a
\* try whose handler logs and goes on to the next row.  With 4 cells or
\* more the record is cell 0 and cell 3 stripped, plus the hidden inputs of
\* the row's form when they can be read; otherwise the generic record, whose
\* text is "" when inner_text() raises.
ExtractRow(h) ==
    IF h.tdq = "throws" THEN [raised |-> FALSE, recs |-> <<>>]
    ELSE IF h.ncells >= 4
    THEN IF h.c0.throws \/ h.c3.throws \/ h.form = "query_throws"
         THEN [raised |-> FALSE, recs |-> <<>>]
         ELSE [raised |-> FALSE,
               recs |-> <<StructuredRecord(StripCell(h.c0), StripCell(h.c3),
                              IF h.form = "hidden" THEN h.HORA ELSE NoneText, NoneText)>>]
    ELSE [raised |-> FALSE,
          recs |-> <<GenericRecord(IF h.text.throws THEN <<>> ELSE StripCell(h.text))>>]

\* the loop of lines 295-329 over the row handles: an exception that leaves
\* a pass ends the loop, the records appended so far stay in `slots`
RECURSIVE ExtractLoop(_)
ExtractLoop(rows) ==
    IF rows = <<>> THEN <<>>
    ELSE LET r == ExtractRow(Head(rows))
         IN  IF r.raised THEN r.recs ELSE r.recs \o ExtractLoop(Tail(rows))

\* lines 292-335: `slots` after the extraction; the query of the rows and
\* the loop are in a try whose handler logs and saves artifacts, so nothing
\* is raised
Extract(queryOk, rows) ==
    [raised |-> FALSE, slots |-> IF queryOk THEN ExtractLoop(rows) ELSE <<>>]

\* ------------------------------------------- check_availability navigation
NAV_ATTEMPTS == 3

\* the environment variable NAV_ATTEMPTS: unset, or an integer text
NavEnvUnset == [set |-> FALSE, v |-> 0]
NavEnv(n) == [set |-> TRUE, v |-> n]

\* line 147: int(os.getenv("NAV_ATTEMPTS", "3"))
NavAttempts(env) == IF env.set THEN env.v ELSE NAV_ATTEMPTS

\* lines 156-172: the artifacts of a failed navigation.  makedirs, the
\* screenshot and the HTML dump each sit in a try of their own: what fails
\* is logged and the rest goes on.
CaptureArtifacts(io) ==
    IF ~io.dir THEN {}
    ELSE (IF io.shot THEN {"screenshot"} ELSE {})
         \cup (IF io.html THEN {"page"} ELSE {})

\* a failure handler that saves the artifacts after every failed attempt
OnGotoFailedEveryTime(attempt, nav_attempts, io) ==
    IF attempt = nav_attempts
    THEN [events |-> <<"capture", "raise">>, written |-> CaptureArtifacts(io), raised |-> TRUE]
    ELSE [events |-> <<"capture">>, written |-> CaptureArtifacts(io), raised |-> FALSE]

\* lines 152-173: the handler of a failed page.goto; on the last attempt it
\* saves the artifacts and re-raises, before that it only logs
OnGotoFailed(attempt, nav_attempts, io) ==
    IF attempt = nav_attempts
    THEN [events |-> <<"capture", "raise">>, written |-> CaptureArtifacts(io), raised |-> TRUE]
    ELSE [events |-> <<>>, written |-> {}, raised |-> FALSE]

\* lines 148-173: `for attempt in range(1, nav_attempts + 1)` from `attempt`
\* on; gotoOk[i] tells whether the i-th page.goto returns.  The loop ends at
\* the first goto that returns (break), with the exception of the last
\* attempt, or with the range exhausted.
RECURSIVE NavLoop(_, _, _, _)
NavLoop(attempt, nav_attempts, gotoOk, io) ==
    IF attempt > nav_attempts
    THEN [events |-> <<>>, written |-> {}, raised |-> FALSE]
    ELSE IF gotoOk[attempt]
    THEN [events |-> <<"goto">>, written |-> {}, raised |-> FALSE]
    ELSE LET h == OnGotoFailed(attempt, nav_attempts, io)
             rest == IF h.raised THEN [events |-> <<>>, written |-> {}, raised |-> TRUE]
                     ELSE NavLoop(attempt + 1, nav_attempts, gotoOk, io)
         IN  [events |-> <<"goto">> \o h.events \o rest.events,
              written |-> h.written \cup rest.written,
              raised |-> rest.raised]

\* lines 141-384 seen from the navigation: the exception of the last attempt
\* reaches the handler of line 382, otherwise the flow goes on to `rest`
Navigate(env, gotoOk, io, rest) ==
    LET nav == NavLoop(1, NavAttempts(env), gotoOk, io)
    IN  [nav |-> nav, fetch |-> IF nav.raised THEN [k |-> "raised", slots |-> <<>>] ELSE rest]

\* ----------------------------------------------------------- I/O outcomes
\* The state file as load_state sees it: a JSON mapping, or missing /
\* unparsable.  An I/O call of a cycle either succeeds or raises inside the
\* function that makes it.
EmptyState == [p \in Providers |-> NoEntry]
ReadableFile(map) == [readable |-> TRUE, map |-> map]
UnreadableFile == [readable |-> FALSE, map |-> EmptyState]

\* load_state: the parsed mapping; {} when the file is missing, or when
\* open / json.load raises (readOk false)
load_state(f, readOk) == IF f.readable /\ readOk THEN f.map ELSE EmptyState

\* save_state with the outcome of its I/O: "ok"; "refused", makedirs or
\* open raises and the file is untouched; "torn", open(path, "w") has
\* truncated the file and the dump or the close raises (device full).  The
\* exception is logged in every case.
save_state(f, data, outcome) ==
    CASE outcome = "ok" -> ReadableFile(data)
      [] outcome = "refused" -> f
      [] outcome = "torn" -> UnreadableFile

\* a send whose transport failure reaches the caller
send_notification_raising(transportOk) ==
    [raised |-> ~transportOk, delivered |-> transportOk]

\* checker.send_notification: the SMTP session is inside try/except, a
\* failure is logged and the call returns
send_notification(transportOk) == [raised |-> FALSE, delivered |-> transportOk]

\* the save_state calls of one run, in order, on the mapping held in memory
RECURSIVE SaveEach(_, _, _, _)
SaveEach(f, state, written, outcome) ==
    IF written = <<>> THEN f
    ELSE SaveEach(save_state(f, SaveTarget(state, Target, Head(written)), outcome),
                  SaveTarget(state, Target, Head(written)), Tail(written), outcome)

\* update_state_and_notify.main with the outcomes io of its I/O calls:
\* read (state file readable), save, send (transport works).  Every send in
\* main is inside try/except, so the run goes on whatever the send does.
MainIO(f, art, utcNow, io) ==
    LET early == EarlyReturn(art.slotsFile)
        state == load_state(f, io.read)
        next_slot == find_next_slot(art.slotsFile.slots, Target, MAX_DAYS,
                                    utcNow + TzOffsetHours)
        d == Decide(state[Target], next_slot, art.submitFailure, utcNow)
    IN  IF early # "go"
        THEN [file |-> f, branch |-> early, attempted |-> <<>>, delivered |-> <<>>,
              exit |-> IF early = "unreadable_slots_file" THEN 2 ELSE 0]
        ELSE [file |-> SaveEach(f, state, d.written, io.save),
              branch |-> d.branch,
              attempted |-> Sends(d.events),
              delivered |-> IF send_notification(io.send).delivered
                            THEN Sends(d.events) ELSE <<>>,
              exit |-> 0]

VARIABLES
    now,        \* UTC clock, hours
    file,       \* the state file: provider -> entry
    artifacts,  \* artifacts directory: newest slots_*.json, submit_failure_*.html present
    cli,        \* the CLI monitor process: running, its in-memory state mapping
    last,       \* observation of the last cycle run (history)
    probe       \* one call of a function of the program: its inputs and result

vars == <<now, file, artifacts, cli, last, probe>>

LocalNow == now + TzOffsetHours


\* ------------------------------------------------------------ histories
NoLast ==
    [driver |-> "none", branch |-> "none", pre |-> NoEntry, next |-> NoSlot,
     captcha |-> FALSE, events |-> <<>>, utc |-> 0, repeat |-> FALSE, exit |-> 0]

\* no call under observation
NoProbe == [k |-> "none"]

\* ---------------------------------------------------------------- Init
\* The state file is an input of both drivers.  It starts without an entry
\* for the target, or with one a previous deployment or the operator left:
\* a stored hora, or a manual pause (no paused_until, or a naive ISO time).
InitPauses == {NonePu, NaivePu(PAUSE_DURATION_HOURS)}

InitEntries ==
    {NoEntry}
    \cup {Entry(DateText(d, 9), 0, FALSE, NonePu) : d \in 2..MaxDay}
    \cup {Entry(h, 0, TRUE, pu) : h \in {NoneText, DateText(MaxDay, 9)}, pu \in InitPauses}

Init ==
    /\ now = 0
    /\ file \in {[p \in Providers |-> IF p = Target THEN e ELSE Entry(DateText(2, 9), 1, FALSE, NonePu)]
                   : e \in InitEntries}
    /\ artifacts = [slotsFile |-> NoSlotsFile, submitFailure |-> FALSE]
    /\ cli = [running |-> FALSE, state |-> [p \in Providers |-> NoEntry]]
    /\ last = NoLast
    /\ probe = NoProbe

\* ------------------------------------------------------------- CI script
\* update_state_and_notify.main, one invocation with TARGET_DOCTOR = target
CIRunFor(target) ==
    LET captcha_detected == artifacts.submitFailure
        early == EarlyReturn(artifacts.slotsFile)
        saved == file[target]
        next_slot == find_next_slot(artifacts.slotsFile.slots, target, MAX_DAYS, LocalNow)
        d == Decide(saved, next_slot, captcha_detected, now)
        again == last.driver = "ci" /\ last.utc = now
    IN  /\ captcha_detected => saved.failures < MaxFailures
        /\ IF early # "go"
           THEN /\ file' = file
                /\ last' = [NoLast EXCEPT !.driver = "ci", !.branch = early, !.pre = saved,
                                          !.utc = now, !.repeat = again,
                                          !.exit = IF early = "unreadable_slots_file" THEN 2 ELSE 0]
           ELSE /\ file' = SaveTarget(file, target, d.written[Len(d.written)])
                /\ last' = [driver |-> "ci", branch |-> d.branch, pre |-> saved,
                            next |-> next_slot, captcha |-> captcha_detected,
                            events |-> d.events, utc |-> now, repeat |-> again, exit |-> 0]
        /\ UNCHANGED <<probe, now, artifacts, cli>>

CIRun == CIRunFor(Target)

\* The two drivers are not run against the same state file at the same time
\* (no locking is provided): the CI script runs while no monitor loop does.
CICycle == ~cli.running /\ CIRun

\* ------------------------------------------------------- checker one-shot
\* check_availability lines 339-372: the notifications of one fetch that
\* found slots, with TARGET_DOCTOR set
CheckAvailabilityEvents(slots, localNow) ==
    IF slots = <<>> THEN <<>>
    ELSE IF find_next_slot(slots, Target, MAX_DAYS, localNow).some
         THEN <<SendNextSlot, SendNextSlot>>
         ELSE <<SendAvailable>>

\* check_availability lines 277 and 339-353: what one fetch leaves in the
\* artifacts directory
FetchArtifacts(art, slots, output_json, jsonWritten, submitFailed) ==
    [slotsFile |-> IF slots # <<>> /\ output_json
                   THEN (IF jsonWritten THEN SlotsFile(slots) ELSE CorruptSlotsFile)
                   ELSE art.slotsFile,
     submitFailure |-> art.submitFailure \/ submitFailed]

FetchResults == SlotLists \cup {<<>>}

\* `python -m src.checker --output-json`, lines 511-518
OneShot ==
    \E slots \in FetchResults, jsonWritten \in BOOLEAN, submitFailed \in BOOLEAN :
        /\ artifacts' = FetchArtifacts(artifacts, slots, TRUE, jsonWritten, submitFailed)
        /\ last' = NoLast
        /\ UNCHANGED <<probe, now, file, cli>>

\* a CI job starts in a fresh checkout: the artifacts directory holds the
\* restored state file only
NewWorkspace ==
    /\ artifacts # [slotsFile |-> NoSlotsFile, submitFailure |-> FALSE]
    /\ artifacts' = [slotsFile |-> NoSlotsFile, submitFailure |-> FALSE]
    /\ last' = NoLast
    /\ UNCHANGED <<probe, now, file, cli>>

\* --------------------------------------------------------------- CLI loop
\* checker.py lines 466-474: control is at `if args.monitor` with monitor
\* mode selected and a target set; the state file is loaded once, before the
\* loop.  Which command lines get here is the subject of Main.
CLIStart ==
    /\ ~cli.running
    /\ cli' = [running |-> TRUE, state |-> file]
    /\ last' = NoLast
    /\ UNCHANGED <<probe, now, file, artifacts>>

\* a comparison that saves the state before it sends the notification
MonitorCompareSaveFirst(state, next_slot) ==
    IF ~next_slot.some THEN [branch |-> "no_slot", state |-> state, events |-> <<>>]
    ELSE
    LET saved == state[Target]
        prev_hora == IF saved.present THEN saved.hora ELSE NoneText
        saved_dt == parse_dt(prev_hora)
        new_dt == ParseSlotDatetime(SlotHora(next_slot.slot))
    IN  IF EarlierSlot(new_dt, saved_dt)
        THEN [branch |-> "notify",
              state |-> SaveTarget(state, Target,
                                   Entry(SlotHoraStored(next_slot.slot), 0, FALSE, NonePu)),
              events |-> <<Write, SendSlotFreed>>]
        ELSE [branch |-> "no_change", state |-> state, events |-> <<>>]

\* checker.py lines 484-500: the comparison of the monitor loop on its
\* in-memory mapping -> the mapping afterwards and the events
MonitorCompare(state, next_slot) ==
    IF ~next_slot.some THEN [branch |-> "no_slot", state |-> state, events |-> <<>>]
    ELSE
    LET saved == state[Target]
        prev_hora == IF saved.present THEN saved.hora ELSE NoneText
        saved_dt == parse_dt(prev_hora)
        new_dt == ParseSlotDatetime(SlotHora(next_slot.slot))
    IN  IF EarlierSlot(new_dt, saved_dt)
        THEN [branch |-> "notify",
              state |-> SaveTarget(state, Target,
                                   Entry(SlotHoraStored(next_slot.slot), 0, FALSE, NonePu)),
              events |-> <<SendSlotFreed, Write>>]
        ELSE [branch |-> "no_change", state |-> state, events |-> <<>>]

\* one pass of the loop from the comparison on (lines 480-502), with the
\* outcomes io of its I/O calls.  The send of line 495 is not inside a try
\* of its own: an exception of it would skip lines 496-498 and leave the
\* loop through the handler of line 507.
MonitorPassIO(mem, f, slots, localNow, io) ==
    LET next_slot == find_next_slot(slots, Target, MAX_DAYS, localNow)
        m == MonitorCompare(mem, next_slot)
        sent == send_notification(io.send)
    IN  IF m.branch # "notify"
        THEN [mem |-> mem, file |-> f, branch |-> m.branch, attempted |-> <<>>,
              delivered |-> <<>>, aborted |-> FALSE]
        ELSE IF sent.raised
        THEN [mem |-> mem, file |-> f, branch |-> "loop_failed",
              attempted |-> <<SendSlotFreed>>, delivered |-> <<>>, aborted |-> TRUE]
        ELSE [mem |-> m.state, file |-> save_state(f, m.state, io.save),
              branch |-> m.branch, attempted |-> <<SendSlotFreed>>,
              delivered |-> IF sent.delivered THEN <<SendSlotFreed>> ELSE <<>>,
              aborted |-> FALSE]

\* outcome of the Playwright flow of check_availability: it ran to the end
\* with the slots it extracted, or an exception reached line 382
FetchDone(slots) == [k |-> "done", slots |-> slots]
FetchRaised == [k |-> "raised", slots |-> <<>>]
FetchOutcomes == {FetchDone(slots) : slots \in FetchResults} \cup {FetchRaised}

NoHours == "No available hours."
HoursFound == "Available hours found"

\* what check_availability returns, lines 373-384: the pair (message, slots)
\* when return_slots is set and the flow ran to the end, the bare message
\* otherwise; the handler of line 382 returns the bare message always
CheckAvailabilityReturn(fetch, return_slots) ==
    IF fetch.k = "raised"
    THEN [pair |-> FALSE, message |-> NoHours, slots |-> <<>>]
    ELSE [pair |-> return_slots,
          message |-> IF fetch.slots = <<>> THEN NoHours ELSE HoursFound,
          slots |-> fetch.slots]

\* checker.py lines 476-504: one pass of the `while True` loop.  Line 478
\* unpacks the return value into (res, slots): a bare message does not
\* unpack, the ValueError is caught at line 507 and the process exits 0.
CLICycle ==
    \E fetch \in FetchOutcomes, submitFailed \in BOOLEAN :
        LET r == CheckAvailabilityReturn(fetch, TRUE)
            slots == r.slots
            next_slot == find_next_slot(slots, Target, MAX_DAYS, LocalNow)
            m == MonitorCompare(cli.state, next_slot)
        IN  /\ cli.running
            /\ artifacts' = FetchArtifacts(artifacts, slots, FALSE, TRUE, submitFailed)
            /\ IF r.pair
               THEN /\ cli' = [cli EXCEPT !.state = m.state]
                    /\ file' = IF Count(m.events, Write) > 0 THEN m.state ELSE file
                    /\ last' = [driver |-> "cli", branch |-> m.branch,
                                pre |-> cli.state[Target],
                                next |-> next_slot, captcha |-> FALSE,
                                events |-> CheckAvailabilityEvents(slots, LocalNow) \o m.events,
                                utc |-> now, repeat |-> FALSE, exit |-> 0]
               ELSE /\ cli' = [running |-> FALSE, state |-> [p \in Providers |-> NoEntry]]
                    /\ file' = file
                    /\ last' = [NoLast EXCEPT !.driver = "cli", !.branch = "fetch_raised",
                                              !.pre = cli.state[Target], !.utc = now]
            /\ UNCHANGED <<probe, now>>

\* checker.py lines 505-509: KeyboardInterrupt ends the loop, exit(0)
CLIStop ==
    /\ cli.running
    /\ cli' = [running |-> FALSE, state |-> [p \in Providers |-> NoEntry]]
    /\ last' = NoLast
    /\ UNCHANGED <<probe, now, file, artifacts>>

\* ------------------------------------------------------------------ time
Tick ==
    /\ now + TickHours <= MaxNow
    /\ now' = now + TickHours
    /\ last' = NoLast
    /\ UNCHANGED <<probe, file, artifacts, cli>>

Next ==
    \/ CICycle
    \/ OneShot
    \/ NewWorkspace
    \/ CLIStart
    \/ CLICycle
    \/ CLIStop
    \/ Tick

Spec == Init /\ [][Next]_vars

\* =================================================== alternating drivers
\* A monitor loop for the target and CI jobs, each for one provider, take
\* turns on the same state file: a CI job runs between two passes of the
\* loop, never during one.  The artifacts directory of the CI jobs holds a
\* slots file with a row of each provider.
InitAlt ==
    /\ now = 0
    /\ file = [p \in Providers |-> Entry(DateText(MaxDay, 9), 0, FALSE, NonePu)]
    /\ artifacts \in {[slotsFile |-> SlotsFile(<<Row(SO, DateText(1, 9)), Row(AL, DateText(2, 9))>>),
                       submitFailure |-> c] : c \in BOOLEAN}
    /\ cli = [running |-> FALSE, state |-> [p \in Providers |-> NoEntry]]
    /\ last = NoLast
    /\ probe = NoProbe

CIJob == \E target \in Providers : CIRunFor(target)

NextAlt ==
    \/ CIJob
    \/ CLIStart
    \/ CLICycle
    \/ CLIStop

SpecAlt == InitAlt /\ [][NextAlt]_vars

\* ================================================== calls of one function
\* A second specification applies single functions of the program to inputs
\* drawn from bounded sets: `probe` holds the inputs, then the result.
MaxSlots == 3        \* slots in the list handed to find_next_slot
MaxHorizon == 2      \* max_days handed to find_next_slot

SeqsUpTo(S, n) == UNION {[1..k -> S] : k \in 0..n}

\* slot records handed to find_next_slot: the target's rows on day 01 (two
\* spellings of the name, equal instants), on day 02, another provider's
\* row, a row with no time text and one with the text "00/06/2025 09:00"
FindPool ==
    {Row(AL, DateText(1, 9)),
     Row(LowerStr(AL), DateText(1, 9)),
     Row(AL, DateText(2, 9)),
     Row(SO, DateText(1, 9)),
     Row(AL, NoneText),
     Row(AL, DateText(0, 9))}

FindTargets == {Target, <<"A", "L">>}

\* local times of the call: before day 01 09:00, at it, a day after it
FindNows == {0, 9, 9 + HoursPerDay}

FindInputs ==
    {[k |-> "find", done |-> FALSE, slots |-> sl, target |-> td, days |-> n,
      lnow |-> t, out |-> NoSlot]
        : sl \in SeqsUpTo(FindPool, MaxSlots), td \in FindTargets,
          n \in 0..MaxHorizon, t \in FindNows}

\* outcomes of the I/O calls of one run
IOOutcomes ==
    {[read |-> r, save |-> w, send |-> t]
        : r \in BOOLEAN, w \in {"ok", "refused", "torn"}, t \in BOOLEAN}

Pending == [k |-> "pending"]

\* the target's entry before a run of main: none, a stored hora, one failure
\* short of the threshold, paused with paused_until due, paused without one
MainEntries ==
    {NoEntry,
     Entry(DateText(MaxDay, 9), 0, FALSE, NonePu),
     Entry(DateText(MaxDay, 9), FAILURE_THRESHOLD - 1, FALSE, NonePu),
     Entry(DateText(MaxDay, 9), 0, TRUE, NaivePu(0)),
     Entry(DateText(MaxDay, 9), 0, TRUE, NonePu)}

MainSlotsFiles ==
    {NoSlotsFile,
     SlotsFile(<<Row(AL, DateText(1, 9))>>),
     SlotsFile(<<Row(AL, DateText(MaxDay, 9))>>),
     SlotsFile(<<Row(SO, DateText(1, 9))>>)}

MainInputs ==
    {[k |-> "main", done |-> FALSE,
      file |-> ReadableFile([p \in Providers |->
                   IF p = Target THEN e ELSE Entry(DateText(2, 9), 1, FALSE, NonePu)]),
      art |-> [slotsFile |-> sf, submitFailure |-> c],
      io |-> io, out |-> Pending]
        : e \in MainEntries, sf \in MainSlotsFiles, c \in BOOLEAN, io \in IOOutcomes}

PassInputs ==
    {[k |-> "pass", done |-> FALSE,
      file |-> ReadableFile([p \in Providers |-> e]),
      slots |-> sl, io |-> io, out |-> Pending]
        : e \in {NoEntry, Entry(DateText(MaxDay, 9), 0, FALSE, NonePu)},
          sl \in FetchResults, io \in {x \in IOOutcomes : x.read}}

MaxElements == 3     \* elements returned by driver.find_elements

DriverInputs ==
    {[k |-> "driver", done |-> FALSE, found |-> f, out |-> Pending]
        : f \in {Elements(n) : n \in 0..MaxElements} \cup {FindElementsRaised}}

\* command lines: any of these options present or not
ArgvOptions == {"--monitor", "--target-doctor", "--state-file", "--output-json", "--headless"}

InvokeInputs ==
    {[k |-> "invoke", done |-> FALSE, argv |-> a, envTarget |-> e, out |-> Pending]
        : a \in SUBSET ArgvOptions, e \in BOOLEAN}

MaxRows == 3         \* row handles handed to the extractor

Blank == <<>>
\* the row handles: a row of the target with blanks around its texts, one
\* with a form, a row of 4 empty cells, a row of 3 cells, rows on which the
\* td query, cell 3, the form query, the hidden inputs or the row's own text
\* raise
RowPool ==
    {RowHandle("ok", 4, CellText(AL, TRUE), CellText(DateText(1, 9), TRUE), "none", NoneText,
               CellText(AL, FALSE)),
     RowHandle("ok", 5, CellText(SO, FALSE), CellText(DateText(2, 9), FALSE), "hidden",
               DateText(MaxDay, 9), CellText(SO, FALSE)),
     RowHandle("ok", 4, CellText(Blank, TRUE), CellText(EmptyText, TRUE), "none", NoneText,
               CellText(Blank, TRUE)),
     RowHandle("ok", 3, CellText(AL, FALSE), CellText(DateText(1, 9), FALSE), "none", NoneText,
               CellText(AL, TRUE)),
     RowHandle("throws", 4, CellText(AL, FALSE), CellText(DateText(1, 9), FALSE), "none", NoneText,
               CellText(AL, FALSE)),
     RowHandle("ok", 4, CellText(AL, FALSE), Throws, "none", NoneText, CellText(AL, FALSE)),
     RowHandle("ok", 4, CellText(AL, FALSE), CellText(DateText(2, 9), FALSE), "query_throws",
               NoneText, CellText(AL, FALSE)),
     RowHandle("ok", 4, CellText(AL, FALSE), CellText(DateText(2, 9), FALSE), "throws",
               DateText(1, 9), CellText(AL, FALSE)),
     RowHandle("ok", 0, Throws, Throws, "none", NoneText, Throws)}

ExtractInputs ==
    {[k |-> "extract", done |-> FALSE, queryOk |-> q, rows |-> rows, out |-> Pending]
        : q \in BOOLEAN, rows \in SeqsUpTo(RowPool, MaxRows)}

\* every I/O call of the run succeeds
AllOk == [read |-> TRUE, save |-> "ok", send |-> TRUE]

\* the stored state of an unpaused provider: no entry, a stored hora on day
\* 02 or on day MaxDay
PairEntries ==
    {NoEntry} \cup {Entry(DateText(d, 9), 0, FALSE, NonePu) : d \in 2..MaxDay}

\* one state file and one fetched slot list, handed to both drivers
PairInputs ==
    {[k |-> "pair", done |-> FALSE,
      file |-> ReadableFile([p \in Providers |-> e]),
      slots |-> sl, out |-> Pending]
        : e \in PairEntries, sl \in SlotLists}

MaxNavAttempts == 4  \* NAV_ATTEMPTS values tried, and page.goto calls with an outcome

CaptureOutcomes == {[dir |-> d, shot |-> s, html |-> h] : d, s, h \in BOOLEAN}

\* NAV_ATTEMPTS unset or 0..MaxNavAttempts, every pattern of goto outcomes,
\* the rest of the flow finding no slot or one
NavInputs ==
    {[k |-> "nav", done |-> FALSE, env |-> e, gotoOk |-> g, io |-> io, rest |-> r,
      return_slots |-> rs, out |-> Pending]
        : e \in {NavEnvUnset} \cup {NavEnv(n) : n \in 0..MaxNavAttempts},
          g \in [1..MaxNavAttempts -> BOOLEAN], io \in CaptureOutcomes,
          r \in {FetchDone(<<>>), FetchDone(<<Row(AL, DateText(1, 9))>>)},
          rs \in BOOLEAN}

ProbeInputs ==
    FindInputs \cup MainInputs \cup PassInputs \cup DriverInputs \cup InvokeInputs
    \cup ExtractInputs \cup PairInputs \cup NavInputs

InitUnits ==
    /\ now = 0
    /\ file = [p \in Providers |-> NoEntry]
    /\ artifacts = [slotsFile |-> NoSlotsFile, submitFailure |-> FALSE]
    /\ cli = [running |-> FALSE, state |-> [p \in Providers |-> NoEntry]]
    /\ last = NoLast
    /\ probe \in ProbeInputs

\* find_next_slot(slots, target_doctor, max_days) called at local time lnow
FindNextSlotCall ==
    /\ probe.k = "find"
    /\ ~probe.done
    /\ probe' = [probe EXCEPT !.done = TRUE,
                    !.out = find_next_slot(probe.slots, probe.target, probe.days, probe.lnow)]
    /\ UNCHANGED <<now, file, artifacts, cli, last>>

\* update_state_and_notify.main run at UTC time 0
MainCall ==
    /\ probe.k = "main"
    /\ ~probe.done
    /\ probe' = [probe EXCEPT !.done = TRUE,
                    !.out = MainIO(probe.file, probe.art, 0, probe.io)]
    /\ UNCHANGED <<now, file, artifacts, cli, last>>

\* one pass of the monitor loop at local time TzOffsetHours; the mapping in
\* memory is the one the file holds
MonitorPassCall ==
    /\ probe.k = "pass"
    /\ ~probe.done
    /\ probe' = [probe EXCEPT !.done = TRUE,
                    !.out = MonitorPassIO(probe.file.map, probe.file, probe.slots,
                                          TzOffsetHours, probe.io)]
    /\ UNCHANGED <<now, file, artifacts, cli, last>>

\* check_availability() with the module-level driver set (lines 132-133)
DriverCall ==
    /\ probe.k = "driver"
    /\ ~probe.done
    /\ probe' = [probe EXCEPT !.done = TRUE, !.out = check_with_driver(probe.found)]
    /\ UNCHANGED <<now, file, artifacts, cli, last>>

\* `python -m src.checker <argv>`
Invoke ==
    /\ probe.k = "invoke"
    /\ ~probe.done
    /\ probe' = [probe EXCEPT !.done = TRUE, !.out = Main(probe.argv, probe.envTarget)]
    /\ UNCHANGED <<now, file, artifacts, cli, last>>

\* the extraction of check_availability on the rows the page returned
ExtractCall ==
    /\ probe.k = "extract"
    /\ ~probe.done
    /\ probe' = [probe EXCEPT !.done = TRUE, !.out = Extract(probe.queryOk, probe.rows)]
    /\ UNCHANGED <<now, file, artifacts, cli, last>>

\* the CI script (UTC time 0, no submit_failure file) and one pass of the
\* monitor loop (local time TzOffsetHours), each run on the same state file
\* and the same slot list
PairCall ==
    /\ probe.k = "pair"
    /\ ~probe.done
    /\ probe' = [probe EXCEPT !.done = TRUE,
                    !.out = [ci |-> MainIO(probe.file,
                                           [slotsFile |-> SlotsFile(probe.slots),
                                            submitFailure |-> FALSE], 0, AllOk),
                             cli |-> MonitorPassIO(probe.file.map, probe.file, probe.slots,
                                                   TzOffsetHours, AllOk)]]
    /\ UNCHANGED <<now, file, artifacts, cli, last>>

\* check_availability() through the Playwright flow, lines 141-384
NavigateCall ==
    /\ probe.k = "nav"
    /\ ~probe.done
    /\ probe' = [probe EXCEPT !.done = TRUE,
                    !.out = LET n == Navigate(probe.env, probe.gotoOk, probe.io, probe.rest)
                            IN  [nav |-> n.nav,
                                 ret |-> CheckAvailabilityReturn(n.fetch, probe.return_slots)]]
    /\ UNCHANGED <<now, file, artifacts, cli, last>>

NextUnits ==
    \/ NavigateCall
    \/ PairCall
    \/ ExtractCall
    \/ FindNextSlotCall
    \/ MainCall
    \/ MonitorPassCall
    \/ DriverCall
    \/ Invoke

SpecUnits == InitUnits /\ [][NextUnits]_vars


\* ================================================================ claims
\* The observation `last` is of the cycle that just ran: `last.pre` is the
\* target's entry the cycle read, file[Target] the entry it left.
CIRan == last.driver = "ci" /\ last.branch \notin {"none", "no_slots_file", "unreadable_slots_file"}
CLIRan == last.driver = "cli"
Post == file[Target]
NewHora == IF last.next.some THEN SlotHora(last.next.slot) ELSE NoneText
SlotFreedSent == Count(last.events, SendSlotFreed) > 0

\* the nearest slot of the cycle is strictly earlier than the stored hora
StrictlyEarlier ==
    /\ last.next.some
    /\ parse_dt(last.pre.hora).some
    /\ parse_dt(NewHora).some
    /\ parse_dt(NewHora).t < parse_dt(last.pre.hora).t

\* the cycle started PAUSED with paused_until in the future, or absent
StartedPausedNotDue ==
    /\ last.pre.paused
    /\ (last.pre.pu.k = "none" \/ last.pre.pu.t > last.utc)

\* the cycle started PAUSED with paused_until at or before the current time
StartedPausedDue ==
    /\ last.pre.paused
    /\ last.pre.pu.k # "none"
    /\ last.pre.pu.t <= last.utc

\* C1: after a cycle that sent a "Slot freed" notification (stored hora
\* present, new nearest instant strictly earlier), the entry in the state
\* file has hora equal to the new slot's time text.
C1_SlotFreedStoresNewHora ==
    ((CIRan \/ CLIRan) /\ SlotFreedSent /\ StrictlyEarlier) => Post.hora = NewHora

\* C2: first-observation suppression: no stored hora and a qualifying
\* nearest slot this cycle => the cycle sends no notification at all and the
\* entry in the state file has hora equal to that slot's time.
C2_FirstObservationSilentInit ==
    ((CIRan \/ CLIRan) /\ ~last.pre.paused /\ ~Truthy(last.pre.hora) /\ last.next.some)
        => (Sends(last.events) = <<>> /\ Post.hora = NewHora)

\* C3: idempotence: a cycle run again on the same artifacts (same slots,
\* same failure signal) with no time elapsed sends no notification.
C3_SecondRunSilent ==
    (CIRan /\ last.repeat) => Sends(last.events) = <<>>

\* C4: monotonic improvement only: in an ACTIVE cycle a slot-freed
\* notification is sent if and only if a nearest slot exists and its instant
\* is strictly earlier than the instant of the stored hora.
C4_NotifyIffStrictlyEarlier ==
    ((CIRan \/ CLIRan) /\ ~last.pre.paused) => (SlotFreedSent <=> StrictlyEarlier)

\* C5: resume: a cycle that starts PAUSED with paused_until at or before the
\* current time ends with paused = false, paused_until cleared and
\* consecutive_failures = 0, sends exactly one "Monitor resumed", and then
\* compares this cycle's slot as an ACTIVE cycle does.
C5_ResumeWhenDue ==
    (CIRan /\ StartedPausedDue)
        => /\ ~Post.paused
           /\ Post.pu = NonePu
           /\ Post.failures = 0
           /\ Count(last.events, SendResumed) = 1
           /\ (SlotFreedSent <=> StrictlyEarlier)

\* C6: failure-threshold pause, one alert: an ACTIVE entry reaches
\* consecutive_failures = FAILURE_THRESHOLD - 1 only by that many failing
\* cycles in a row counted from 0; the next failing cycle (the third) leaves
\* the provider PAUSED with paused_until = now + pause duration and sends the
\* one pause alert of the run: the failing cycles before it send none, and a
\* failing cycle that starts PAUSED sends none.
C6_ThirdFailurePausesOnce ==
    (CIRan /\ last.captcha)
        => /\ (~last.pre.paused /\ last.pre.failures = FAILURE_THRESHOLD - 1)
                => /\ Post.paused
                   /\ Post.pu = AwarePu(last.utc + PAUSE_DURATION_HOURS)
                   /\ Count(last.events, SendPaused) = 1
           /\ (~last.pre.paused /\ last.pre.failures < FAILURE_THRESHOLD - 1)
                => Count(last.events, SendPaused) = 0
           /\ last.pre.paused => Count(last.events, SendPaused) = 0

\* C7: in an ACTIVE cycle with the failure signal true whose incremented
\* counter reaches FAILURE_THRESHOLD, the cycle ends PAUSED with
\* paused_until = now + PAUSE_DURATION_HOURS and one pause alert sent,
\* whatever the slot comparison finds.
C7_ThresholdPausesWhateverTheSlot ==
    (CIRan /\ ~last.pre.paused /\ last.captcha
       /\ UpdateFailures(last.pre.failures, TRUE) >= FAILURE_THRESHOLD)
        => /\ Post.paused
           /\ Post.pu.k # "none"
           /\ Post.pu.t = last.utc + PAUSE_DURATION_HOURS
           /\ Count(last.events, SendPaused) = 1

C9_StillPausedUnchanged ==
    (CIRan /\ StartedPausedNotDue)
        => /\ Post.hora = last.pre.hora
           /\ Post.failures = last.pre.failures
           /\ Post.paused = last.pre.paused
           /\ Post.pu = last.pre.pu

\* C10: after a cycle that takes the initialize or the notify transition the
\* persisted consecutive_failures is 0, whatever the failure signal.
C10_AcceptResetsFailures ==
    ((CIRan \/ CLIRan) /\ last.branch \in {"initialize", "notify"}) => Post.failures = 0

\* C11: after any cycle of the CI script whose failure signal is false (no
\* submit_failure artifact) the persisted consecutive_failures is 0 and an
\* ACTIVE provider is not PAUSED by it; consecutive_failures is never
\* negative.
C11_NoSignalResetsCounter ==
    /\ Post.failures >= 0
    /\ (last.driver = "ci" /\ ~artifacts.submitFailure)
          => /\ Post.failures = 0
             /\ (~last.pre.paused => ~Post.paused)

\* C12: in every cycle, of either driver, at most one notification is sent
\* and at most one write of the target's entry to the state file is made.
C12_OneSendOneWrite ==
    (last.driver \in {"ci", "cli"})
        => /\ Len(Sends(last.events)) <= 1
           /\ Count(last.events, Write) <= 1

\* C13: every cycle for the target, whatever its outcome, ends by writing
\* the target's entry to the state file: the write is the last event of the
\* cycle and the entry is in the file afterwards.
C13_EveryCycleEndsWithWrite ==
    (last.driver \in {"ci", "cli"})
        => /\ last.events # <<>>
           /\ last.events[Len(last.events)] = Write
           /\ Post.present

\* C14: find_next_slot equals the reference selection.  A slot qualifies
\* when its doctor text contains the target case-insensitively and its time
\* text parses to an instant t with now < t <= now + horizon_days; the result
\* is the qualifying slot with the smallest t, the first in input order on
\* ties, and None when no slot qualifies (so for horizon_days = 0, and for
\* slots with a missing or malformed time, which are passed over).
RefQualifies(s, target, horizon_days, localNow) ==
    /\ Contains(LowerStr(target), LowerStr(s.doctor))
    /\ ParseSlotDatetime(SlotHora(s)).some
    /\ localNow < ParseSlotDatetime(SlotHora(s)).t
    /\ ParseSlotDatetime(SlotHora(s)).t <= localNow + horizon_days * HoursPerDay

RefSelection(slots, target, horizon_days, localNow) ==
    LET Q == {i \in DOMAIN slots : RefQualifies(slots[i], target, horizon_days, localNow)}
        T(i) == ParseSlotDatetime(SlotHora(slots[i])).t
    IN  IF Q = {} THEN NoSlot
        ELSE SomeSlot(slots[CHOOSE i \in Q :
                                \A j \in Q : T(i) < T(j) \/ (T(i) = T(j) /\ i <= j)])

C15_OtherEntriesKept ==
    [][/\ CLICycle => \A p \in Providers \ {Target} : file'[p] = file[p]
       /\ \A T \in Providers :
              CIRunFor(T) => \A p \in Providers \ {T} : file'[p] = file[p]]_vars

\* C18: an exception raised while fetching or extracting is caught and the
\* cycle is one with no slots: in monitor mode the cycle makes no
\* notification and no state change, and the loop goes on to the next cycle
\* rather than terminating.
C18_FetchErrorLoopGoesOn ==
    (CLIRan /\ last.branch = "fetch_raised")
        => /\ Sends(last.events) = <<>>
           /\ Post = last.pre
           /\ cli.running

\* the run of main on the same inputs with no state I/O error
MainClean == MainIO(probe.file, probe.art, 0, [probe.io EXCEPT !.read = TRUE, !.save = "ok"])
\* the run of main on the same artifacts with an empty state file
MainFresh ==
    MainIO(ReadableFile(EmptyState), probe.art, 0,
           [probe.io EXCEPT !.read = TRUE, !.save = "ok"])

\* C16: state I/O errors never crash a cycle.  When the state file cannot
\* be read, load_state returns the empty mapping and the run decides as if
\* the provider had no prior state; when save_state fails the write is
\* dropped, the file staying as it was; in both cases the run ends with its
\* normal exit code.
C16_StateIOErrorsDegrade ==
    (probe.k = "main" /\ probe.done)
        => /\ probe.out.exit = MainClean.exit
           /\ ~probe.io.read
                => /\ probe.out.branch = MainFresh.branch
                   /\ probe.out.attempted = MainFresh.attempted
           /\ probe.io.save # "ok" => probe.out.file = probe.file

\* the same call with a working notification transport
SendOkRun ==
    IF probe.k = "main"
    THEN MainIO(probe.file, probe.art, 0, [probe.io EXCEPT !.send = TRUE])
    ELSE MonitorPassIO(probe.file.map, probe.file, probe.slots, TzOffsetHours,
                       [probe.io EXCEPT !.send = TRUE])

\* C17: a notification transport failure never aborts a cycle and does not
\* change its outcome: with the send failing, a run of main or a pass of the
\* monitor loop takes the same branch, attempts the same notifications,
\* leaves the same state file (and the same mapping in memory) and ends the
\* same way (exit status, loop not left) as with the send succeeding.
C17_SendFailureChangesNothing ==
    (probe.k \in {"main", "pass"} /\ probe.done /\ ~probe.io.send)
        => /\ probe.out.branch = SendOkRun.branch
           /\ probe.out.attempted = SendOkRun.attempted
           /\ probe.out.file = SendOkRun.file
           /\ probe.k = "main" => probe.out.exit = SendOkRun.exit
           /\ probe.k = "pass" => (probe.out.mem = SendOkRun.mem /\ ~probe.out.aborted)

\* C17 witness: a pass of the monitor loop that found an earlier slot, whose
\* notification was not delivered, and that stored the new hora
C17_Witness ==
    /\ probe.k = "pass" /\ probe.done /\ ~probe.io.send
    /\ probe.out.attempted = <<SendSlotFreed>>
    /\ probe.out.delivered = <<>>
    /\ probe.io.save = "ok"
    /\ probe.out.file.map[Target].hora = DateText(1, 9)

\* C19: with the module-level driver set, check_availability returns
\* "Available hours found: N slots." and sends one notification exactly when
\* find_elements yields N >= 1 elements; when it yields none, or raises, the
\* result is "No available hours." and no notification is sent.
C19_DriverPath ==
    (probe.k = "driver" /\ probe.done)
        => /\ ~probe.out.raised
           /\ (probe.found.k = "elements" /\ probe.found.n >= 1)
                => (probe.out.message = FoundMessage(probe.found.n) /\ probe.out.sends = 1)
           /\ (probe.found.k = "raised" \/ probe.found.n = 0)
                => (probe.out.message = NoHoursMessage /\ probe.out.sends = 0)

\* C19 witness: the call of the test, find_elements returning two elements
C19_Witness ==
    /\ probe.k = "driver" /\ probe.done
    /\ probe.found = Elements(2)
    /\ probe.out.message = FoundMessage(2)
    /\ probe.out.sends = 1

\* C20: invoking the checker with --monitor and a target provider (option
\* --target-doctor or TARGET_DOCTOR in the environment) reaches the monitor
\* loop, which ends with exit status 0 when interrupted; --monitor with no
\* target provider exits 2 without running a cycle.
C20_MonitorModeReached ==
    (probe.k = "invoke" /\ probe.done /\ "--monitor" \in probe.argv)
        => IF "--target-doctor" \in probe.argv \/ probe.envTarget
           THEN probe.out.mode = "monitor_loop" /\ probe.out.exit = 0
           ELSE probe.out.mode # "monitor_loop" /\ probe.out.exit = 2

\* C21: in every state persisted by a cycle paused_until is set only if
\* paused is true: no reachable state file has paused = false with a
\* paused_until; the pause transition sets both together and the resume
\* transition clears both together.
C21_PausedUntilOnlyIfPaused ==
    /\ \A p \in Providers : file[p].pu # NonePu => file[p].paused
    /\ (CIRan /\ last.branch = "pause") => (Post.paused /\ Post.pu # NonePu)
    /\ (CIRan /\ Count(last.events, SendResumed) > 0)
          => (~Post.paused /\ Post.pu = NonePu)

\* C21 witness: a cycle has taken the pause transition, a later state holds
\* both fields set
C21_Witness ==
    /\ CIRan /\ last.branch = "pause"
    /\ ~last.pre.paused /\ last.pre.pu = NonePu
    /\ Post.paused /\ Post.pu = AwarePu(last.utc + PAUSE_DURATION_HOURS)

\* C21 witness of the resume: a cycle that started paused with a
\* paused_until has cleared both
C21_WitnessResume ==
    /\ CIRan /\ Count(last.events, SendResumed) > 0
    /\ last.pre.paused /\ last.pre.pu # NonePu
    /\ ~Post.paused /\ Post.pu = NonePu

\* what the statement of the extraction says of one row: a row on which the
\* td query, cell 0, cell 3 or the form query raises is skipped; a row of 4
\* cells or more gives one record with cell 0 and cell 3 stripped; any other
\* row gives one generic record
RowSkipped(h) ==
    h.tdq = "throws" \/ (h.ncells >= 4 /\ (h.c0.throws \/ h.c3.throws \/ h.form = "query_throws"))
RowStructured(h) == ~RowSkipped(h) /\ h.ncells >= 4

\* positions of the rows that are not skipped, in row order
RECURSIVE KeptRows(_, _)
KeptRows(rows, i) ==
    IF i > Len(rows) THEN <<>>
    ELSE (IF RowSkipped(rows[i]) THEN <<>> ELSE <<i>>) \o KeptRows(rows, i + 1)

\* extraction is total, in row order, one record per row that is not
\* skipped: record j comes from the j-th kept row
ExtractionTotalInOrder ==
    LET rows == probe.rows
        kept == IF probe.queryOk THEN KeptRows(rows, 1) ELSE <<>>
        slots == probe.out.slots
    IN  /\ ~probe.out.raised
        /\ Len(slots) <= Len(rows)
        /\ Len(slots) = Len(kept)
        /\ \A j \in 1..Len(kept) :
              LET h == rows[kept[j]]
              IN  IF RowStructured(h)
                  THEN /\ ~slots[j].generic
                       /\ slots[j].slot.doctor = h.c0.inner
                       /\ slots[j].slot.hora = h.c3.inner
                  ELSE slots[j].generic

C23_ReloadedEveryCycle ==
    [][CLICycle => /\ cli.state = file
                   /\ \A p \in Providers :
                         file'[p] = file[p] \/ (p = Target /\ file'[p] = cli'.state[p])]_vars

\* C24: the monitor loop and the CI script make the same decision.  For
\* every stored state of an unpaused provider and every slot list of a cycle
\* with no failure signal, both drivers attempt the same slot-freed
\* notifications (one or none) and leave the same stored hora in the file.
C24_DriversAgree ==
    (probe.k = "pair" /\ probe.done) =>
        /\ Count(probe.out.ci.attempted, SendSlotFreed)
              = Count(probe.out.cli.attempted, SendSlotFreed)
        /\ probe.out.ci.file.map[Target].hora = probe.out.cli.file.map[Target].hora

\* number of page.goto calls of a navigation
Gotos(nav) == Count(nav.events, "goto")

\* every attempt the loop is allowed fails (and there is at least one)
AllAttemptsFail ==
    /\ NavAttempts(probe.env) >= 1
    /\ \A i \in 1..NavAttempts(probe.env) : ~probe.gotoOk[i]

\* C25: navigation retry is bounded.  page.goto is called at most
\* NAV_ATTEMPTS times (3 when the variable is unset) and not again after the
\* first call that returns; when every attempt fails the artifacts are saved
\* once, after the last goto and before the exception leaves the loop (both
\* files when the file system lets them be written), and check_availability
\* returns "No available hours."; when an attempt succeeds nothing is saved
\* and nothing is raised.
C25_NavigationBounded ==
    (probe.k = "nav" /\ probe.done) =>
        LET nav == probe.out.nav
            n == NavAttempts(probe.env)
        IN  /\ Gotos(nav) <= n
            /\ ~probe.env.set => Gotos(nav) <= NAV_ATTEMPTS
            /\ \A i \in 1..Len(nav.events) :
                  (nav.events[i] = "goto" /\ i < Len(nav.events)) =>
                      ~probe.gotoOk[Count(SubSeq(nav.events, 1, i), "goto")]
            /\ AllAttemptsFail =>
                  /\ nav.events = [i \in 1..n |-> "goto"] \o <<"capture", "raise">>
                  /\ nav.raised
                  /\ (probe.io.dir /\ probe.io.shot /\ probe.io.html)
                        => nav.written = {"screenshot", "page"}
                  /\ probe.out.ret.message = NoHours
            /\ ~AllAttemptsFail =>
                  /\ ~nav.raised
                  /\ Count(nav.events, "capture") = 0
                  /\ nav.written = {}
                  /\ n >= 1 => probe.gotoOk[Gotos(nav)]

\* three failed attempts under the default, both artifacts written
C25_Witness ==
    /\ probe.k = "nav" /\ probe.done
    /\ ~probe.env.set
    /\ AllAttemptsFail
    /\ Gotos(probe.out.nav) = NAV_ATTEMPTS
    /\ probe.out.nav.written = {"screenshot", "page"}
    /\ probe.out.ret.message = NoHours

\* a second attempt that succeeds after a first that failed
C25_WitnessRetry ==
    /\ probe.k = "nav" /\ probe.done
    /\ Gotos(probe.out.nav) = 2
    /\ ~probe.out.nav.raised
    /\ probe.out.ret.message = HoursFound

\* the notifications of the cycle logic: resume, slot-freed, pause alert
CycleSends == {SendResumed, SendSlotFreed, SendPaused}

\* C26: the state write is the last step of a cycle.  In a cycle of either
\* driver every resume, slot-freed or pause notification is followed by a
\* write of the state file, and the last event of a cycle that writes is a
\* write: nothing is sent after the final write.
C26_WriteIsLast ==
    (CIRan \/ CLIRan) =>
        LET ev == last.events
        IN  /\ \A i \in 1..Len(ev) :
                  ev[i] \in CycleSends => \E j \in (i + 1)..Len(ev) : ev[j] = Write
            /\ Count(ev, Write) > 0 => ev[Len(ev)] = Write

\* a CI cycle that resumes and notifies: two sends, then the writes
C26_Witness ==
    /\ CIRan
    /\ Count(last.events, SendResumed) = 1
    /\ Count(last.events, SendSlotFreed) = 1
    /\ last.events[Len(last.events)] = Write

\* a pass of the monitor loop that notifies and writes
C26_WitnessLoop ==
    /\ CLIRan
    /\ Count(last.events, SendSlotFreed) = 1
    /\ last.events[Len(last.events)] = Write

\* a CI cycle that sends the pause alert and writes
C26_WitnessPause ==
    /\ CIRan
    /\ Count(last.events, SendPaused) = 1
    /\ last.events[Len(last.events)] = Write

\* the cycle started with a pause the failure-threshold transition wrote
\* (the only writer of an offset-aware paused_until), its time reached
StartedAutoPausedDue ==
    /\ last.pre.paused
    /\ last.pre.pu.k = "aware"
    /\ last.pre.pu.t <= last.utc

\* C27: a pause entered automatically is temporary.  A cycle that starts
\* with the provider paused by the failure-threshold transition, at or after
\* the paused_until that transition wrote, reads and compares that value and
\* resumes: it leaves paused = false and sends the resume notification.
C27_AutomaticPauseEnds ==
    (CIRan /\ StartedAutoPausedDue)
        => /\ last.branch # "paused_error"
           /\ ~Post.paused
           /\ Count(last.events, SendResumed) = 1

\* the stored hora h2 is h1 unchanged, or a parsable time strictly earlier
HoraKeptOrEarlier(h1, h2) ==
    \/ h2 = h1
    \/ /\ parse_dt(h2).some
       /\ parse_dt(h2).t < parse_dt(h1).t

\* C28: a provider's stored hora only moves earlier.  Once the file holds a
\* parsable hora for the target, a cycle of either driver leaves it as it is
\* or replaces it with a time whose instant is strictly earlier; it is never
\* cleared and never replaced by an equal or later time.
C28_HoraOnlyMovesEarlier ==
    [][((CIRun \/ CLICycle) /\ parse_dt(file[Target].hora).some)
          => HoraKeptOrEarlier(file[Target].hora, file'[Target].hora)]_vars
====
